---------------------------- MODULE Spec2Model ----------------------------
(***************************************************************************)
(* A model of the two browser pages of the repository:                     *)
(*   - the Bitcoin price ticker (src/app.js): a 1-second poller, a price   *)
(*     fetch with two awaits, and a bounded history buffer behind a chart; *)
(*   - the transcript summarizer (src/unnamed/part_000): a click handler,  *)
(*     summarizeContent, and the three-strategy transcript fetch chain.    *)
(* JavaScript runs each handler to its next await without interruption, so *)
(* one action is the code between two awaits of one call.                  *)
(***************************************************************************)
EXTENDS Integers, Sequences, FiniteSets, TLC

(***************************************************************************)
(* Price ticker: constants and bounds                                      *)
(***************************************************************************)

\* src/app.js:3
maxDataPoints == 50

\* Timer ticks the model lets the interval fire.
MaxTicks == 51

\* Disturbances in one run: a price fetch that fails counts one, and a tick
\* that fires while earlier fetches are in flight counts one for each of them.
MaxDisturbances == 1

VARIABLES
    chart,          \* "null" | "ready": the module-level chart (app.js:2)
    priceHistory,   \* app.js:4
    timeLabels,     \* app.js:5
    chartShown,     \* the points chart.update last drew: [labels, data] counts
    timerActive,    \* the interval of app.js:163 is running
    now,            \* seconds since page load (the wall clock read by new Date())
    issued,         \* number of fetchBitcoinPrice calls started so far
    call,           \* call id -> "fetch" | "json" | "done" | "failed"
    currentPrice,   \* the #currentPrice element: [text, color]
    priceChange,    \* the #priceChange element: [text, className]
    appended,       \* history: every price updateChart was called with, in order
    failures,       \* history: fetches that failed so far
    overlaps        \* history: pairs of fetches in flight together

priceVars == <<chart, priceHistory, timeLabels, chartShown, timerActive, now,
               issued, call, currentPrice, priceChange, appended, failures,
               overlaps>>

VARIABLES
    btn,             \* #summarizeBtn: [disabled, text, loader]
    loadingSection,  \* style.display of #loadingSection
    loadingStatus,   \* textContent of #loadingStatus
    resultsSection,  \* #resultsSection: [display, videoInfo, summaryData, transcript]
    errorMessage,    \* #errorMessage: [text, display]
    runs             \* the summarizeContent calls since the last trigger that
                     \* started one: the pending ones and the latest finished

summVars == <<btn, loadingSection, loadingStatus, resultsSection, errorMessage, runs>>

\* Direct calls of the page's pure functions: the argument of the call and,
\* once the function has returned (or thrown), what came back. An output is
\* <<>> until then and <<value>> afterwards.
VARIABLES
    urlArg,        \* the url argument, as the parts it is written from
    validOut,      \* isValidYouTubeURL(url)
    idOut,         \* extractYouTubeVideoId(url)
    startOut,      \* the error summarizeContent(url) throws before its first
                   \* await ("" when it throws none)
    textArg,       \* the text argument, as the pieces it is written from
    summaryOut     \* generateSummary(text): the record, or the error thrown

pureVars == <<urlArg, validOut, idOut, startOut, textArg, summaryOut>>

vars == <<priceVars, summVars, pureVars>>

\* The ticker's "lastPrice" of the response to call id: a quote that differs
\* from call to call, so that the order of samples is observable.
Quote(id) == 60000 + id

\* The "priceChangePercent" of the response to call id: both signs occur.
Change(id) == IF id % 2 = 0 THEN -2 ELSE 3

\* Another disturbance is within the bound.
MayDisturb == failures + overlaps < MaxDisturbances

\* now.toLocaleTimeString(...): the label of the second the sample arrived in.
timeLabel(t) == t

PendingCalls == {i \in 1..issued : call[i] \in {"fetch", "json"}}

PriceInit ==
    /\ chart = "null"
    /\ priceHistory = <<>>
    /\ timeLabels = <<>>
    /\ chartShown = [labels |-> 0, data |-> 0]
    /\ timerActive = FALSE
    /\ now = 0
    /\ issued = 0
    /\ call = <<>>
    /\ currentPrice = [text |-> <<"loading">>, color |-> "default"]
    /\ priceChange = [text |-> <<"none">>, className |-> "price-change"]
    /\ appended = <<>>
    /\ failures = 0
    /\ overlaps = 0

\* updatePriceDisplay(price, change24h): text and class only; the colour of
\* #currentPrice is not written.
updatePriceDisplay(price, change24h) ==
    /\ currentPrice' = [currentPrice EXCEPT !.text = <<"$", price>>]
    /\ priceChange' = [text |-> <<IF change24h >= 0 THEN "+" ELSE "", change24h>>,
                       className |-> IF change24h >= 0 THEN "price-change positive"
                                                       ELSE "price-change negative"]

\* Mutant of updateChart: nothing is ever evicted.
updateChart_noEvict(price) ==
    /\ priceHistory' = Append(priceHistory, price)
    /\ timeLabels' = Append(timeLabels, timeLabel(now))
    /\ chartShown' = [labels |-> Len(timeLabels'), data |-> Len(priceHistory')]
    /\ appended' = Append(appended, price)

\* Mutant of updateChart: only the prices are shifted.
updateChart_shiftPricesOnly(price) ==
    LET ph == Append(priceHistory, price)
        tl == Append(timeLabels, timeLabel(now))
    IN  /\ priceHistory' = IF Len(ph) > maxDataPoints THEN Tail(ph) ELSE ph
        /\ timeLabels' = tl
        /\ chartShown' = [labels |-> Len(timeLabels'), data |-> Len(priceHistory')]
        /\ appended' = Append(appended, price)

\* Mutant of updateChart: the newest sample is dropped, not the oldest.
updateChart_popNewest(price) ==
    LET ph == Append(priceHistory, price)
        tl == Append(timeLabels, timeLabel(now))
    IN  /\ IF Len(ph) > maxDataPoints
           THEN /\ priceHistory' = SubSeq(ph, 1, Len(ph) - 1)
                /\ timeLabels' = SubSeq(tl, 1, Len(tl) - 1)
           ELSE /\ priceHistory' = ph
                /\ timeLabels' = tl
        /\ chartShown' = [labels |-> Len(timeLabels'), data |-> Len(priceHistory')]
        /\ appended' = Append(appended, price)

\* updateChart(price): push to both arrays, shift both when the prices exceed
\* maxDataPoints, hand both to the chart and redraw.
updateChart(price) ==
    LET ph == Append(priceHistory, price)
        tl == Append(timeLabels, timeLabel(now))
    IN  /\ IF Len(ph) > maxDataPoints
           THEN /\ priceHistory' = Tail(ph)
                /\ timeLabels' = Tail(tl)
           ELSE /\ priceHistory' = ph
                /\ timeLabels' = tl
        /\ chartShown' = [labels |-> Len(timeLabels'), data |-> Len(priceHistory')]
        /\ appended' = Append(appended, price)

\* Mutant of catchError: the handler also clears the interval.
catchError_stopsPolling(id, errorMsg) ==
    /\ currentPrice' = [text |-> <<"Error: ", errorMsg>>, color |-> "#f44336"]
    /\ call' = [call EXCEPT ![id] = "failed"]
    /\ failures' = failures + 1
    /\ timerActive' = FALSE
    /\ UNCHANGED <<summVars, pureVars>>
    /\ UNCHANGED <<chart, priceHistory, timeLabels, chartShown, now,
                   issued, priceChange, appended, overlaps>>

\* The catch block of fetchBitcoinPrice: the error goes to #currentPrice and
\* to the console, and the call ends.
catchError(id, errorMsg) ==
    /\ currentPrice' = [text |-> <<"Error: ", errorMsg>>, color |-> "#f44336"]
    /\ call' = [call EXCEPT ![id] = "failed"]
    /\ failures' = failures + 1
    /\ UNCHANGED <<summVars, pureVars>>
    /\ UNCHANGED <<chart, priceHistory, timeLabels, chartShown, timerActive, now,
                   issued, priceChange, appended, overlaps>>

\* fetchBitcoinPrice() up to its first await: the request is sent.
startFetch ==
    /\ issued' = issued + 1
    /\ call' = Append(call, "fetch")

\* The DOMContentLoaded handler: initChart, one immediate fetch, setInterval.
PageLoad ==
    /\ chart = "null"
    /\ chart' = "ready"
    /\ startFetch
    /\ timerActive' = TRUE
    /\ UNCHANGED <<summVars, pureVars>>
    /\ UNCHANGED <<priceHistory, timeLabels, chartShown, now, currentPrice,
                   priceChange, appended, failures, overlaps>>

\* The interval fires: one second has passed and fetchBitcoinPrice is called,
\* whatever became of the earlier calls.
TimerTick ==
    /\ timerActive
    /\ now < MaxTicks
    /\ failures + overlaps + Cardinality(PendingCalls) <= MaxDisturbances
    /\ now' = now + 1
    /\ startFetch
    /\ overlaps' = overlaps + Cardinality(PendingCalls)
    /\ UNCHANGED <<summVars, pureVars>>
    /\ UNCHANGED <<chart, priceHistory, timeLabels, chartShown, timerActive,
                   currentPrice, priceChange, appended, failures>>

\* await fetch(...) resolves with response.ok: the call goes on to
\* response.json().
FetchOk(id) ==
    /\ call[id] = "fetch"
    /\ call' = [call EXCEPT ![id] = "json"]
    /\ UNCHANGED <<summVars, pureVars>>
    /\ UNCHANGED <<chart, priceHistory, timeLabels, chartShown, timerActive, now,
                   issued, currentPrice, priceChange, appended, failures,
                   overlaps>>

\* await fetch(...) rejects (network, CORS).
FetchNetworkError(id) ==
    /\ call[id] = "fetch"
    /\ MayDisturb
    /\ catchError(id, "Failed to fetch")

\* await fetch(...) resolves with !response.ok.
FetchHttpError(id) ==
    /\ call[id] = "fetch"
    /\ MayDisturb
    /\ catchError(id, "API error")

\* await response.json() rejects: the body is not JSON.
JsonParseError(id) ==
    /\ call[id] = "json"
    /\ MayDisturb
    /\ catchError(id, "Unexpected token")

\* Mutant of JsonNoPrice: the sample is charted before the format is checked.
JsonNoPrice_chartsFirst(id) ==
    /\ call[id] = "json"
    /\ MayDisturb
    /\ updateChart(0)
    /\ currentPrice' = [text |-> <<"Error: ", "Invalid data format from API">>,
                        color |-> "#f44336"]
    /\ call' = [call EXCEPT ![id] = "failed"]
    /\ failures' = failures + 1
    /\ UNCHANGED <<summVars, pureVars>>
    /\ UNCHANGED <<chart, timerActive, now, issued, priceChange, overlaps>>

\* The body parses but data.lastPrice is missing (or falsy).
JsonNoPrice(id) ==
    /\ call[id] = "json"
    /\ MayDisturb
    /\ catchError(id, "Invalid data format from API")

\* The body parses and carries lastPrice: display and chart are updated.
JsonOk(id) ==
    /\ call[id] = "json"
    /\ updatePriceDisplay(Quote(id), Change(id))
    /\ updateChart(Quote(id))
    /\ call' = [call EXCEPT ![id] = "done"]
    /\ UNCHANGED <<summVars, pureVars>>
    /\ UNCHANGED <<chart, timerActive, now, issued, failures, overlaps>>

PriceNext ==
    \/ PageLoad
    \/ TimerTick
    \/ \E id \in PendingCalls : FetchOk(id)
    \/ \E id \in PendingCalls : FetchNetworkError(id)
    \/ \E id \in PendingCalls : FetchHttpError(id)
    \/ \E id \in PendingCalls : JsonParseError(id)
    \/ \E id \in PendingCalls : JsonNoPrice(id)
    \/ \E id \in PendingCalls : JsonOk(id)

(***************************************************************************)
(* Strings, as the summarizer page's code reads them                       *)
(***************************************************************************)

Char(s, i) == SubSeq(s, i, i)

\* The white space String.prototype.trim and the regex class \s remove,
\* over the characters the model's texts are written in.
IsSpace(c) == c \in {" ", "\t", "\n", "\r"}

\* String.prototype.trim
trim(s) ==
    LET idx == {i \in 1..Len(s) : ~IsSpace(Char(s, i))}
    IN  IF idx = {} THEN ""
        ELSE SubSeq(s, CHOOSE i \in idx : \A j \in idx : i <= j,
                       CHOOSE i \in idx : \A j \in idx : i >= j)

\* The literal lit occurs in s at position i.
MatchAt(s, i, lit) ==
    /\ i >= 1
    /\ i + Len(lit) - 1 <= Len(s)
    /\ SubSeq(s, i, i + Len(lit) - 1) = lit

LowerLetters == "abcdefghijklmnopqrstuvwxyz"
UpperLetters == "ABCDEFGHIJKLMNOPQRSTUVWXYZ"
Digits == "0123456789"

CharsOf(s) == {Char(s, i) : i \in 1..Len(s)}

WordChars == CharsOf(LowerLetters) \cup CharsOf(UpperLetters)
                \cup CharsOf(Digits) \cup {"_"}
UpperChars == CharsOf(UpperLetters)
DigitChars == CharsOf(Digits)

\* The regex class \w
IsWordChar(c) == c \in WordChars

\* The regex class [a-zA-Z0-9_-]
IsIdChar(c) == IsWordChar(c) \/ c = "-"

LowerChar(c) ==
    IF c \in UpperChars
    THEN Char(LowerLetters, CHOOSE i \in 1..26 : Char(UpperLetters, i) = c)
    ELSE c

\* String.prototype.toLowerCase, character by character (by halves).
RECURSIVE toLowerCase(_)
toLowerCase(s) ==
    IF Len(s) <= 1 THEN LowerChar(s)
    ELSE toLowerCase(SubSeq(s, 1, Len(s) \div 2))
            \o toLowerCase(SubSeq(s, Len(s) \div 2 + 1, Len(s)))

\* ([a-zA-Z0-9_-]{11}) matches at position i.
IdLen == 11
IdAt(s, i) ==
    /\ i >= 1
    /\ i + IdLen - 1 <= Len(s)
    /\ \A j \in i..(i + IdLen - 1) : IsIdChar(Char(s, j))

\* Positions just after a match of ^https?:\/\/ in s.
AfterScheme(s) ==
    (IF MatchAt(s, 1, "https://") THEN {Len("https://") + 1} ELSE {})
    \cup (IF MatchAt(s, 1, "http://") THEN {Len("http://") + 1} ELSE {})

\* Positions after an optional literal starting at one of the positions ps.
AfterOptional(s, ps, lit) ==
    ps \cup {p + Len(lit) : p \in {q \in ps : MatchAt(s, q, lit)}}

\* Positions after the literal starting at one of the positions ps.
AfterLiteral(s, ps, lit) ==
    {p + Len(lit) : p \in {q \in ps : MatchAt(s, q, lit)}}

\* s contains lit.
Includes(s, lit) == \E i \in 1..Len(s) : MatchAt(s, i, lit)

\* isValidYouTubeURL(url): two anchored patterns, either may match.
isValidYouTubeURL(url) ==
    LET host == AfterOptional(url, AfterScheme(url), "www.")
        p1 == AfterLiteral(url, host, "youtube.com/watch?v=")
                \cup AfterLiteral(url, host, "youtu.be/")
        p2 == AfterLiteral(url, host, "youtube.com/embed/")
    IN  \/ \E p \in p1 : IdAt(url, p)
        \/ \E p \in p2 : IdAt(url, p)

\* isValidPodcastURL(url): three case-insensitive patterns.
isValidPodcastURL(url) ==
    LET u == toLowerCase(url)
        dotAny == \E p \in AfterScheme(u) : \E j \in (p + 1)..Len(u) :
                     /\ \/ MatchAt(u, j, ".rss")
                        \/ MatchAt(u, j, ".xml")
                        \/ MatchAt(u, j, ".feed")
                     /\ \A k \in p..(j - 1) : Char(u, k) \notin {"\n", "\r"}
    IN  dotAny \/ Includes(u, "feed") \/ Includes(u, "podcast")

\* The value no string has: JavaScript's null.
Null == "<null>"

\* The 11 characters the leftmost match of a pattern captures: the pattern
\* is a prefix (one of the literals) followed by the id.
CaptureAfter(url, prefixes) ==
    LET hits == {i \in 1..Len(url) :
                    \E lit \in prefixes : MatchAt(url, i, lit)
                                          /\ IdAt(url, i + Len(lit))}
    IN  IF hits = {} THEN Null
        ELSE LET i == CHOOSE h \in hits : \A g \in hits : h <= g
                 lit == CHOOSE l \in prefixes :
                           MatchAt(url, i, l) /\ IdAt(url, i + Len(l))
             IN  SubSeq(url, i + Len(lit), i + Len(lit) + IdLen - 1)

\* Mutant of extractYouTubeVideoId: the embed pattern is missing.
extractYouTubeVideoId_noEmbed(url) ==
    LET m1 == CaptureAfter(url, {"?v=", "&v="})
        m2 == CaptureAfter(url, {"youtu.be/"})
    IN  IF m1 # Null THEN m1
        ELSE m2

\* extractYouTubeVideoId(url): the first of three patterns that matches.
extractYouTubeVideoId(url) ==
    LET m1 == CaptureAfter(url, {"?v=", "&v="})
        m2 == CaptureAfter(url, {"youtu.be/"})
        m3 == CaptureAfter(url, {"embed/"})
    IN  IF m1 # Null THEN m1
        ELSE IF m2 # Null THEN m2
        ELSE m3

(***************************************************************************)
(* Transcript parsing and the extractive summarizer                        *)
(***************************************************************************)

\* A response body as DOMParser and getElementsByTagName('text') present it:
\* the textContent of its <text> elements in document order (none when the
\* body is not a caption document).
RECURSIVE joinTrimmed(_, _)
joinTrimmed(textElements, i) ==
    IF i > Len(textElements) THEN ""
    ELSE LET text == trim(textElements[i])
         IN  (IF text # "" THEN text \o " " ELSE "")
                \o joinTrimmed(textElements, i + 1)

\* parseYouTubeTranscriptXML(xmlText)
parseYouTubeTranscriptXML(textElements) == trim(joinTrimmed(textElements, 1))

\* String.prototype.split on a regex that is one or more characters of seps:
\* the pieces between the runs, the empty pieces at either end included.
split(s, seps) ==
    LET starts == {1} \cup {j + 1 : j \in {k \in 1..Len(s) :
                                /\ Char(s, k) \in seps
                                /\ k = Len(s) \/ Char(s, k + 1) \notin seps}}
        endOf(p) == LET stops == {i \in p..Len(s) : Char(s, i) \in seps}
                    IN  IF stops = {} THEN Len(s)
                        ELSE (CHOOSE a \in stops : \A b \in stops : a <= b) - 1
        nth(k) == CHOOSE p \in starts : Cardinality({q \in starts : q < p}) = k - 1
    IN  [k \in 1..Cardinality(starts) |-> SubSeq(s, nth(k), endOf(nth(k)))]

\* Array.prototype.join
RECURSIVE join(_, _)
join(pieces, sep) ==
    IF pieces = <<>> THEN ""
    ELSE IF Len(pieces) = 1 THEN pieces[1]
    ELSE pieces[1] \o sep \o join(Tail(pieces), sep)

Whitespace == {" ", "\t", "\n", "\r"}

stopWords == {"the", "a", "an", "and", "or", "but", "in", "on", "at", "to", "for",
              "of", "with", "by", "is", "are", "was", "were", "be", "been", "have",
              "has", "had", "do", "does", "did", "will", "would", "could", "should",
              "may", "might", "must", "can", "this", "that", "these", "those", "i",
              "you", "he", "she", "it", "we", "they"}

\* word.replace(/[^\w]/g, '')
RECURSIVE cleanWord(_)
cleanWord(word) ==
    IF Len(word) <= 1 THEN (IF IsWordChar(word) THEN word ELSE "")
    ELSE cleanWord(SubSeq(word, 1, Len(word) \div 2))
            \o cleanWord(SubSeq(word, Len(word) \div 2 + 1, Len(word)))

\* The words extractKeyPoints counts, in the order it meets them.
countedWords(text) ==
    LET words == split(toLowerCase(text), Whitespace)
        cleaned == [i \in 1..Len(words) |-> cleanWord(words[i])]
    IN  SelectSeq(cleaned, LAMBDA w : Len(w) > 4 /\ w \notin stopWords)

DigitValue(c) == (CHOOSE i \in 1..Len(Digits) : Char(Digits, i) = c) - 1

\* a < b as numbers, for strings of digits without leading zeros.
NumLess(a, b) ==
    \/ Len(a) < Len(b)
    \/ /\ Len(a) = Len(b)
       /\ \E i \in 1..Len(a) :
             /\ SubSeq(a, 1, i - 1) = SubSeq(b, 1, i - 1)
             /\ DigitValue(Char(a, i)) < DigitValue(Char(b, i))

\* A property key that is an array index (a canonical number below 2^32 - 1):
\* Object.entries lists these first, in ascending order, before the other
\* keys in insertion order.
IsArrayIndex(w) ==
    /\ w # ""
    /\ \A i \in 1..Len(w) : Char(w, i) \in DigitChars
    /\ Char(w, 1) # "0" \/ w = "0"
    /\ NumLess(w, "4294967295")

RECURSIVE firstSeen(_, _)
firstSeen(ws, seen) ==
    IF ws = <<>> THEN <<>>
    ELSE IF Head(ws) \in seen THEN firstSeen(Tail(ws), seen)
    ELSE <<Head(ws)>> \o firstSeen(Tail(ws), seen \cup {Head(ws)})

RECURSIVE ascending(_)
ascending(keys) ==
    IF keys = {} THEN <<>>
    ELSE LET k == CHOOSE a \in keys : \A b \in keys : ~NumLess(b, a)
         IN  <<k>> \o ascending(keys \ {k})

\* Object.entries(wordFreq): [word, count] in the object's key order.
wordFreqEntries(text) ==
    LET ws == countedWords(text)
        keys == firstSeen(ws, {})
        indices == {keys[i] : i \in {j \in 1..Len(keys) : IsArrayIndex(keys[j])}}
        ordered == ascending(indices)
                      \o SelectSeq(keys, LAMBDA k : ~IsArrayIndex(k))
    IN  [i \in 1..Len(ordered) |->
            <<ordered[i], Cardinality({j \in 1..Len(ws) : ws[j] = ordered[i]})>>]

\* .sort((a, b) => b[1] - a[1]): stable, by descending count.
RECURSIVE sortByCount(_)
sortByCount(entries) ==
    IF entries = <<>> THEN <<>>
    ELSE LET best == CHOOSE i \in 1..Len(entries) :
                        /\ \A j \in 1..Len(entries) : entries[j][2] <= entries[i][2]
                        /\ \A j \in 1..(i - 1) : entries[j][2] < entries[i][2]
         IN  <<entries[best]>>
                \o sortByCount(SubSeq(entries, 1, best - 1)
                                  \o SubSeq(entries, best + 1, Len(entries)))

Min(a, b) == IF a <= b THEN a ELSE b

\* extractKeyPoints(text)
extractKeyPoints(text) ==
    LET sorted == sortByCount(wordFreqEntries(text))
        top == SubSeq(sorted, 1, Min(5, Len(sorted)))
    IN  [i \in 1..Len(top) |-> top[i][1]]

\* The fragments generateSummary keeps as sentences.
sentencesOf(text) ==
    SelectSeq(split(text, {".", "!", "?"}), LAMBDA f : Len(trim(f)) > 20)

\* Mutant of summaryLengthOf: the fifth of the sentences is rounded down.
summaryLengthOf_floor(n) == Min(5, n \div 5)

\* Math.min(5, Math.ceil(sentences.length * 0.2))
summaryLengthOf(n) == Min(5, (n + 4) \div 5)

\* Mutant of generateSummary: only the empty text is refused.
generateSummary_emptyOnly(text) ==
    IF text = ""
    THEN [threw |-> "Transcript too short to generate summary"]
    ELSE LET sentences == sentencesOf(text)
             summaryLength == summaryLengthOf(Len(sentences))
         IN  [threw |-> "",
              summary |-> join(SubSeq(sentences, 1, summaryLength), ". ") \o ".",
              keyPoints |-> extractKeyPoints(text),
              wordCount |-> Len(split(text, Whitespace))]

\* generateSummary(text): the summary record, or the error it throws.
generateSummary(text) ==
    IF text = "" \/ Len(text) < 50
    THEN [threw |-> "Transcript too short to generate summary"]
    ELSE LET sentences == sentencesOf(text)
             summaryLength == summaryLengthOf(Len(sentences))
         IN  [threw |-> "",
              summary |-> join(SubSeq(sentences, 1, summaryLength), ". ") \o ".",
              keyPoints |-> extractKeyPoints(text),
              wordCount |-> Len(split(text, Whitespace))]

(***************************************************************************)
(* Summarizer page: inputs the user and the network can supply             *)
(***************************************************************************)

\* What the user may have typed into #urlInput when the trigger fires.
Urls == {"https://www.youtube.com/watch?v=dQw4w9WgXcQ",
         "https://youtu.be/dQw4w9WgXcQ",
         "  http://youtube.com/embed/dQw4w9WgXcQ ",
         "https://example.com/show/feed.xml",
         "My Podcast",
         "hello world",
         "   "}

Undefined == "<undefined>"

\* Bodies the oEmbed endpoint may answer with, once parsed as JSON.
OEmbedData == {
    [kind |-> "object", title |-> "Never Gonna Give You Up",
     author_name |-> "Rick Astley",
     thumbnail_url |-> "https://i.ytimg.com/vi/dQw4w9WgXcQ/hqdefault.jpg"],
    [kind |-> "object", title |-> Undefined, author_name |-> Undefined,
     thumbnail_url |-> Undefined],
    [kind |-> "null", title |-> Undefined, author_name |-> Undefined,
     thumbnail_url |-> Undefined]}

\* Bodies a timedtext request may answer with, as their <text> elements.
NoCaptions == <<>>
Captions49 == <<" Bitcoin rallied as traders bought ", "the dip by noon">>
Captions50 == <<" Bitcoin rallied as traders bought ", "", "the dip by noon.\n">>
Captions51 == <<" Bitcoin rallied as traders bought ", "the dips by noon.">>
CaptionsLong == <<"Bitcoin climbed again today while traders watched the charts.",
                  " Analysts expect bitcoin markets to stay volatile this week! ",
                  "Short one.",
                  "Will regulators respond to the bitcoin rally soon?",
                  "Traders remain cautious about markets">>

TranscriptBodies == {NoCaptions, Captions49, Captions50, Captions51, CaptionsLong}

\* The three retrieval strategies of getYouTubeTranscript, in source order.
Strategy == <<"direct", "codetabs", "cors-anywhere">>

ErrInvalidFormat == "Invalid YouTube URL format"
ErrNoTranscript ==
    "No transcript available for this video. The video may not have captions enabled."
ErrPodcast ==
    "Podcast RSS feed processing requires backend setup. Please use YouTube videos for now."
ErrInvalidUrl == "Invalid URL. Please enter a valid YouTube URL."
ErrUnavailable ==
    "Unable to fetch transcript due to CORS restrictions. Please set up a backend service (see README.md) or use a browser extension that disables CORS. Alternatively, ensure the video has captions enabled."
ErrTooShort == "Transcript too short to generate summary"

FallbackInfo == [title |-> "Video", author |-> "Unknown", thumbnail |-> Null]
NoInfo == [title |-> "", author |-> "", thumbnail |-> ""]
NoSummary == [summary |-> "", keyPoints |-> <<>>, wordCount |-> 0]

(***************************************************************************)
(* Summarizer page: initial state                                          *)
(***************************************************************************)

BtnIdle == [disabled |-> FALSE, text |-> "inline", loader |-> "none"]
\* Mutant of BtnBusy: the handler swaps the label but leaves the button enabled.
BtnBusy_stillEnabled == [disabled |-> FALSE, text |-> "none", loader |-> "inline"]

BtnBusy == [disabled |-> TRUE, text |-> "none", loader |-> "inline"]

\* The page as its markup and style sheet (not among the sources) first show
\* it: nothing loading, no results, no error.
SummInit ==
    /\ btn = BtnIdle
    /\ loadingSection = "none"
    /\ loadingStatus = ""
    /\ resultsSection = [display |-> "none", videoInfo |-> NoInfo,
                         summaryData |-> NoSummary, transcript |-> ""]
    /\ errorMessage = [text |-> "", display |-> "none"]
    /\ runs = <<>>

\* No function of the page has been called directly.
NoUrl == [scheme |-> "", www |-> "", shape |-> "", id |-> "", rest |-> ""]
NoOutputs ==
    /\ validOut = <<>>
    /\ idOut = <<>>
    /\ startOut = <<>>
    /\ summaryOut = <<>>
NoCalls ==
    /\ urlArg = NoUrl
    /\ textArg = <<>>
    /\ NoOutputs

Init == PriceInit /\ SummInit /\ NoCalls

Pending(run) == run.outcome = "pending"

(***************************************************************************)
(* Summarizer page: one summarizeContent call, as a record                 *)
(*   url          the argument of the call                                 *)
(*   pc           where the call waits: [stage, k], k the strategy number  *)
(*   inFlight     the requests of this call that have not completed        *)
(*   reqLog       history: the transcript requests issued, in order        *)
(*   parsed       history: per completed strategy, the length of the       *)
(*                transcript it parsed, -1 when it did not get that far    *)
(*   raised       history: the errors that reached summarizeContent's catch*)
(*   loadingTrace history: the values this call gave #loadingSection       *)
(*   oembed       history: how the metadata request ended                  *)
(*   outcome      "pending", "success", or the message of the error        *)
(***************************************************************************)

At(stage, k) == [stage |-> stage, k |-> k]

\* summarizeContent up to `await getYouTubeVideoInfo(videoId)`.
startRun(url, videoId) ==
    [url |-> url, pc |-> At("info", 0), videoId |-> videoId, videoInfo |-> NoInfo,
     status |-> "Extracting YouTube video information...",
     inFlight |-> {"oembed"}, reqLog |-> <<>>, parsed |-> <<>>, raised |-> <<>>,
     loadingTrace |-> <<"flex">>, oembed |-> "pending", outcome |-> "pending",
     transcript |-> "", summaryData |-> NoSummary]

\* A call that throws before its first await.
failedRun(url, status, error) ==
    [url |-> url, pc |-> At("catch", 0), videoId |-> Null, videoInfo |-> NoInfo,
     status |-> status,
     inFlight |-> {}, reqLog |-> <<>>, parsed |-> <<>>, raised |-> <<error>>,
     loadingTrace |-> <<"flex">>, oembed |-> "not sent", outcome |-> error,
     transcript |-> "", summaryData |-> NoSummary]

\* Mutant of summarizeContentStart: the feed of a podcast url is requested.
summarizeContentStart_fetchesFeed(url) ==
    IF isValidYouTubeURL(url)
    THEN LET videoId == extractYouTubeVideoId(url)
         IN  IF videoId = Null
             THEN failedRun(url, "Extracting YouTube video information...",
                            ErrInvalidFormat)
             ELSE startRun(url, videoId)
    ELSE IF isValidPodcastURL(url)
         THEN [startRun(url, Null) EXCEPT !.status = "Processing podcast feed..."]
         ELSE failedRun(url, "", ErrInvalidUrl)

\* summarizeContent(url) up to its first await, or to its catch.
summarizeContentStart(url) ==
    IF isValidYouTubeURL(url)
    THEN LET videoId == extractYouTubeVideoId(url)
         IN  IF videoId = Null
             THEN failedRun(url, "Extracting YouTube video information...",
                            ErrInvalidFormat)
             ELSE startRun(url, videoId)
    ELSE IF isValidPodcastURL(url)
         THEN failedRun(url, "Processing podcast feed...", ErrPodcast)
         ELSE failedRun(url, "", ErrInvalidUrl)

\* urlInput.value.trim() and the start of summarizeContent for every input,
\* evaluated once.
trimmedInput == [value \in Urls |-> trim(value)]
firstStep == [value \in Urls |-> summarizeContentStart(trimmedInput[value])]

\* The classifiers on every input, evaluated once.
classified == [url \in {trimmedInput[value] : value \in Urls} |->
                  [youtube |-> isValidYouTubeURL(url),
                   podcast |-> isValidPodcastURL(url)]]

\* parseYouTubeTranscriptXML and generateSummary for every body, evaluated
\* once.
parsedBody == [textElements \in TranscriptBodies |->
                  parseYouTubeTranscriptXML(textElements)]
summaryOf == [transcript \in {parsedBody[b] : b \in TranscriptBodies} |->
                 generateSummary(transcript)]

\* An error leaves the try block of summarizeContent.
throwToCatch(run, error) ==
    [run EXCEPT !.pc = At("catch", 0), !.raised = Append(@, error),
                !.outcome = error]

\* Mutant of startStrategy: the next proxy is asked at the same time.
startStrategy_alsoNext(run, k) ==
    [run EXCEPT !.pc = At("fetch", k),
                !.reqLog = IF k < Len(Strategy)
                           THEN @ \o <<Strategy[k], Strategy[k + 1]>>
                           ELSE Append(@, Strategy[k]),
                !.inFlight = IF k < Len(Strategy)
                             THEN @ \cup {Strategy[k], Strategy[k + 1]}
                             ELSE @ \cup {Strategy[k]}]

\* Method k of getYouTubeTranscript up to `await fetch(...)`.
startStrategy(run, k) ==
    [run EXCEPT !.pc = At("fetch", k),
                !.reqLog = Append(@, Strategy[k]),
                !.inFlight = @ \cup {Strategy[k]}]

\* Mutant of accepts: any transcript that is not empty is returned.
accepts_nonEmpty(transcript) == transcript # ""

\* `transcript && transcript.length > 50`
accepts(transcript) == transcript # "" /\ Len(transcript) > 50

\* Mutant of nextStrategy: a failed attempt ends the chain with its own error.
nextStrategy_rethrows(run, k) ==
    throwToCatch(run, "Failed to fetch")

\* Method k was not accepted: on to method k + 1, or to the final throw.
nextStrategy(run, k) ==
    IF k < Len(Strategy) THEN startStrategy(run, k + 1)
    ELSE throwToCatch(run, ErrUnavailable)

\* The request of method k has completed; len is what it parsed (-1: nothing).
completed(run, k, len) ==
    [run EXCEPT !.inFlight = @ \ {Strategy[k]}, !.parsed = Append(@, len)]

\* summarizeContent from the return of getYouTubeTranscript to displayResults.
afterTranscript(run, transcript) ==
    IF transcript = "" \/ Len(transcript) < 50
    THEN throwToCatch([run EXCEPT !.transcript = transcript], ErrNoTranscript)
    ELSE LET summaryData == summaryOf[transcript]
             r == [run EXCEPT !.transcript = transcript,
                              !.status = "Generating summary..."]
         IN  IF summaryData.threw # ""
             THEN throwToCatch(r, summaryData.threw)
             ELSE [r EXCEPT !.pc = At("displayed", 0), !.outcome = "success",
                            !.summaryData = [summary |-> summaryData.summary,
                                             keyPoints |-> summaryData.keyPoints,
                                             wordCount |-> summaryData.wordCount]]

\* Method k read its body: the transcript is returned or the chain goes on.
afterBody(run, k, textElements) ==
    LET transcript == parsedBody[textElements]
        r == completed(run, k, Len(transcript))
    IN  IF accepts(transcript) THEN afterTranscript(r, transcript)
        ELSE nextStrategy(r, k)

\* Mutant of videoInfoFailed: the metadata error is not caught.
videoInfoFailed_propagates(run) ==
    throwToCatch([run EXCEPT !.inFlight = @ \ {"oembed"}],
                 "Failed to fetch video info")

\* The catch of getYouTubeVideoInfo: the fallback record is returned and
\* summarizeContent goes on to getYouTubeTranscript.
videoInfoFailed(run) ==
    startStrategy([run EXCEPT !.inFlight = @ \ {"oembed"},
                              !.videoInfo = FallbackInfo,
                              !.status = "Fetching transcript..."], 1)

\* getYouTubeVideoInfo after `await response.json()`.
videoInfoParsed(run, data) ==
    IF data.kind = "null" THEN videoInfoFailed([run EXCEPT !.oembed = "null body"])
    ELSE startStrategy([run EXCEPT !.inFlight = @ \ {"oembed"},
                                   !.oembed = "object",
                                   !.videoInfo = [title |-> data.title,
                                                  author |-> data.author_name,
                                                  thumbnail |-> data.thumbnail_url],
                                   !.status = "Fetching transcript..."], 1)

(***************************************************************************)
(* Summarizer page: what a step of a call does to the page                 *)
(***************************************************************************)

\* Mutant of loadingAfter: the indicator is hidden after a success only.
loadingAfter_successOnly(run, shown) ==
    IF run.outcome = "success" THEN "none" ELSE shown

\* #loadingSection after a step that leaves the call as `run`: the finally
\* block of summarizeContent hides it as soon as the call is over.
loadingAfter(run, shown) ==
    IF Pending(run) THEN shown ELSE "none"

\* The call as the step leaves it: once over it has been through finally.
ended(run, shown) ==
    IF Pending(run) THEN run
    ELSE [run EXCEPT !.pc = At("done", 0),
                     !.loadingTrace = IF loadingAfter(run, shown) = "none"
                                      THEN Append(@, "none") ELSE @]

\* The runs with the call in slot i replaced (i = 0: a call just started,
\* which takes the place of the finished ones).
runsWith(i, run) ==
    IF i = 0 THEN Append(SelectSeq(runs, Pending), run)
    ELSE [runs EXCEPT ![i] = run]

\* The page after a step of call i that leaves the call as `run`; results,
\* error, shown and button are those elements as the step found or set them.
\*   - catch of summarizeContent: the error is shown;
\*   - displayResults: the results are filled in and shown;
\*   - finally of summarizeContent: the loading indicator is hidden;
\*   - finally of the click handler: the button is given back.
settle(i, wrote, run, results, error, shown, button) ==
    /\ runs' = runsWith(i, ended(run, shown))
    /\ loadingStatus' = IF wrote THEN run.status ELSE loadingStatus
    /\ loadingSection' = loadingAfter(run, shown)
    /\ btn' = IF Pending(run) THEN button ELSE BtnIdle
    /\ errorMessage' =
          IF Pending(run) \/ run.outcome = "success" THEN error
          ELSE [text |-> "Error: " \o run.outcome, display |-> "block"]
    /\ resultsSection' =
          IF run.outcome = "success"
          THEN [display |-> "block", videoInfo |-> run.videoInfo,
                summaryData |-> run.summaryData, transcript |-> run.transcript]
          ELSE results
    /\ UNCHANGED <<priceVars, pureVars>>

\* A step of pending call i that leaves it as `run`.
step(i, run) ==
    settle(i, run.status # runs[i].status, run, resultsSection, errorMessage,
           loadingSection, btn)

\* The click handler of #summarizeBtn, up to the first await of the call it
\* starts (or to its end, when the call throws before awaiting).
clickHandler(value) ==
    LET url == trimmedInput[value]
    IN  IF url = ""
        THEN /\ errorMessage' = [text |-> "Please enter a URL", display |-> "block"]
             /\ UNCHANGED <<btn, loadingSection, loadingStatus, resultsSection, runs>>
             /\ UNCHANGED <<priceVars, pureVars>>
        ELSE LET run == firstStep[value]
             IN  settle(0, run.status # "", run,
                        [resultsSection EXCEPT !.display = "none"],
                        [errorMessage EXCEPT !.display = "none"],
                        "flex", BtnBusy)

(***************************************************************************)
(* Summarizer page: actions                                                *)
(***************************************************************************)

\* The user clicks the button; a disabled button receives no click.
Click(value) ==
    /\ ~btn.disabled
    /\ clickHandler(value)

\* The user presses Enter in #urlInput: summarizeBtn.click(), which does
\* nothing on a disabled button.
EnterKey(value) ==
    /\ ~btn.disabled
    /\ clickHandler(value)

Waiting(i, stage) == Pending(runs[i]) /\ runs[i].pc.stage = stage

\* The oEmbed fetch rejects.
InfoFetchReject(i) ==
    /\ Waiting(i, "info")
    /\ step(i, videoInfoFailed([runs[i] EXCEPT !.oembed = "rejected"]))

\* The oEmbed fetch resolves with !response.ok.
InfoFetchNotOk(i) ==
    /\ Waiting(i, "info")
    /\ step(i, videoInfoFailed([runs[i] EXCEPT !.oembed = "not ok"]))

\* The oEmbed fetch resolves with response.ok.
InfoFetchOk(i) ==
    /\ Waiting(i, "info")
    /\ step(i, [runs[i] EXCEPT !.pc = At("infoJson", 0)])

\* response.json() rejects: the oEmbed body is not JSON.
InfoJsonReject(i) ==
    /\ Waiting(i, "infoJson")
    /\ step(i, videoInfoFailed([runs[i] EXCEPT !.oembed = "not json"]))

\* response.json() resolves.
InfoJson(i, data) ==
    /\ Waiting(i, "infoJson")
    /\ step(i, videoInfoParsed(runs[i], data))

\* The fetch of the current strategy rejects (CORS, network).
TranscriptFetchReject(i) ==
    /\ Waiting(i, "fetch")
    /\ step(i, nextStrategy(completed(runs[i], runs[i].pc.k, -1), runs[i].pc.k))

\* The fetch of the current strategy resolves with !response.ok.
TranscriptFetchNotOk(i) ==
    /\ Waiting(i, "fetch")
    /\ step(i, nextStrategy(completed(runs[i], runs[i].pc.k, -1), runs[i].pc.k))

\* The fetch of the current strategy resolves with response.ok.
TranscriptFetchOk(i) ==
    /\ Waiting(i, "fetch")
    /\ step(i, [runs[i] EXCEPT !.pc = At("text", runs[i].pc.k)])

\* response.text() rejects.
TranscriptTextReject(i) ==
    /\ Waiting(i, "text")
    /\ step(i, nextStrategy(completed(runs[i], runs[i].pc.k, -1), runs[i].pc.k))

\* response.text() resolves with a body.
TranscriptText(i, textElements) ==
    /\ Waiting(i, "text")
    /\ step(i, afterBody(runs[i], runs[i].pc.k, textElements))

SummNext ==
    \/ \E value \in Urls : Click(value)
    \/ \E value \in Urls : EnterKey(value)
    \/ \E i \in 1..Len(runs) : InfoFetchReject(i)
    \/ \E i \in 1..Len(runs) : InfoFetchNotOk(i)
    \/ \E i \in 1..Len(runs) : InfoFetchOk(i)
    \/ \E i \in 1..Len(runs) : InfoJsonReject(i)
    \/ \E i \in 1..Len(runs) : \E data \in OEmbedData : InfoJson(i, data)
    \/ \E i \in 1..Len(runs) : TranscriptFetchReject(i)
    \/ \E i \in 1..Len(runs) : TranscriptFetchNotOk(i)
    \/ \E i \in 1..Len(runs) : TranscriptFetchOk(i)
    \/ \E i \in 1..Len(runs) : TranscriptTextReject(i)
    \/ \E i \in 1..Len(runs) : \E textElements \in TranscriptBodies :
          TranscriptText(i, textElements)

\* Some awaited network call of a pending summarizeContent completes or fails.
NetworkStep ==
    \E i \in 1..Len(runs) :
        \/ InfoFetchReject(i)
        \/ InfoFetchNotOk(i)
        \/ InfoFetchOk(i)
        \/ InfoJsonReject(i)
        \/ \E data \in OEmbedData : InfoJson(i, data)
        \/ TranscriptFetchReject(i)
        \/ TranscriptFetchNotOk(i)
        \/ TranscriptFetchOk(i)
        \/ TranscriptTextReject(i)
        \/ \E textElements \in TranscriptBodies : TranscriptText(i, textElements)

(***************************************************************************)
(* Direct calls of the pure functions                                      *)
(***************************************************************************)

\* Sentences the texts are written with, at most this many in one text.
MaxSentences == 27

\* URLs, written from a scheme, a host prefix, one of the shapes the page
\* accepts (or one it does not), a video id and what follows it.
UrlArgs ==
    [scheme : {"https://", "http://", ""},
     www : {"", "www.", "m."},
     shape : {"youtube.com/watch?v=", "youtu.be/", "youtube.com/embed/",
              "youtube.com/watch?t=1&v=", "youtube.com/shorts/",
              "example.com/feed?v="},
     id : {"dQw4w9WgXcQ", "a-b_c-D_E-9", "dQw4w9WgXc", "dQw4w9WgXcQ7",
           "dQw4w9WgX!Q"},
     rest : {"", "&t=42s", "?v=AAAAAAAAAAA", "/embed/BBBBBBBBBBB"}]

UrlOf(u) == u.scheme \o u.www \o u.shape \o u.id \o u.rest

TwoDigits(i) == Char(Digits, (i \div 10) + 1) \o Char(Digits, (i % 10) + 1)

\* The i-th sentence: 21 characters, the shortest fragment that is kept.
Sentence(i) == "Bitcoin update part" \o TwoDigits(i)

\* A fragment of 20 characters, the longest that is discarded.
Filler == "Exactly twenty chars"

Piece(body, stop, kept) == [body |-> body, stop |-> stop, kept |-> kept]

\* A text of n sentences, as its pieces: each a body, the run of . ! ? that
\* ends it, and whether it is long enough to be kept as a sentence.
\*   "plain"  the sentences, each ended by a period;
\*   "runs"   the sentences, ended by runs of terminators, white space around;
\*   "mixed"  three discarded fragments, then each sentence followed by one.
Styles == {"plain", "runs", "mixed"}
Stops == <<"?!", "...", "!">>
Pieces(n, style) ==
    IF style = "plain"
    THEN [i \in 1..n |-> Piece((IF i = 1 THEN "" ELSE " ") \o Sentence(i), ".", TRUE)]
    ELSE IF style = "runs"
    THEN [i \in 1..n |-> Piece("\n " \o Sentence(i) \o " ", Stops[(i % 3) + 1], TRUE)]
    ELSE <<Piece(Filler, ".", FALSE), Piece(" " \o Filler, "!", FALSE),
           Piece(" Short", "?", FALSE)>>
         \o [j \in 1..(2 * n) |->
                IF j % 2 = 1 THEN Piece(" " \o Sentence((j + 1) \div 2), ".", TRUE)
                ELSE Piece(" No", "!", FALSE)]

\* Texts around the 50-character threshold: 49 and 50 characters.
Text49 == <<Piece("Bitcoin rallied as traders bought the dip by noon", "", TRUE)>>
Text50 == <<Piece("Bitcoin rallied as traders bought the dip by noon", ".", TRUE)>>

TextArgs ==
    {Pieces(n, style) : n \in 0..MaxSentences, style \in Styles}
        \cup {Text49, Text50}

RECURSIVE TextOf(_)
TextOf(pieces) ==
    IF pieces = <<>> THEN ""
    ELSE IF Len(pieces) = 1 THEN pieces[1].body \o pieces[1].stop
    ELSE TextOf(SubSeq(pieces, 1, Len(pieces) \div 2))
            \o TextOf(SubSeq(pieces, (Len(pieces) \div 2) + 1, Len(pieces)))

\* The error summarizeContent(url) throws before its first await, "" when it
\* gets as far as the metadata request.
thrownAtStart(url) ==
    LET run == summarizeContentStart(url)
    IN  IF Pending(run) THEN "" ELSE run.outcome

\* The argument of the direct calls: a url, or (with no url) a text.
DrawnArgs ==
    /\ \/ urlArg \in UrlArgs /\ textArg = <<>>
       \/ urlArg = NoUrl /\ textArg \in TextArgs
    /\ NoOutputs

\* Both pages as loaded, and the argument of the direct calls.
PureInit == PriceInit /\ SummInit /\ DrawnArgs

CallIsValidYouTubeURL ==
    /\ urlArg # NoUrl
    /\ validOut = <<>>
    /\ validOut' = <<isValidYouTubeURL(UrlOf(urlArg))>>
    /\ UNCHANGED <<priceVars, summVars, urlArg, idOut, startOut, textArg, summaryOut>>

CallExtractYouTubeVideoId ==
    /\ urlArg # NoUrl
    /\ idOut = <<>>
    /\ idOut' = <<extractYouTubeVideoId(UrlOf(urlArg))>>
    /\ UNCHANGED <<priceVars, summVars, urlArg, validOut, startOut, textArg, summaryOut>>

CallSummarizeContent ==
    /\ urlArg # NoUrl
    /\ startOut = <<>>
    /\ startOut' = <<thrownAtStart(UrlOf(urlArg))>>
    /\ UNCHANGED <<priceVars, summVars, urlArg, validOut, idOut, textArg, summaryOut>>

CallGenerateSummary ==
    /\ urlArg = NoUrl
    /\ summaryOut = <<>>
    /\ summaryOut' = <<generateSummary(TextOf(textArg))>>
    /\ UNCHANGED <<priceVars, summVars, urlArg, validOut, idOut, startOut, textArg>>

PureNext ==
    \/ CallIsValidYouTubeURL
    \/ CallExtractYouTubeVideoId
    \/ CallSummarizeContent
    \/ CallGenerateSummary

(***************************************************************************)
(* Specifications                                                          *)
(***************************************************************************)

\* The pure functions, called on arguments drawn from UrlArgs and TextArgs.
PureSpec == PureInit /\ [][PureNext]_vars

\* The price ticker page.
PriceSpec == Init /\ [][PriceNext]_vars

\* The summarizer page.
SummSpec == Init /\ [][SummNext]_vars

\* The summarizer page when every awaited network call completes or fails.
SummFairSpec == SummSpec /\ WF_vars(NetworkStep)

(***************************************************************************)
(* Price ticker: properties                                                *)
(***************************************************************************)

DoneCalls == {i \in 1..issued : call[i] = "done"}
FailedCalls == {i \in 1..issued : call[i] = "failed"}

\* C1: priceHistory never holds more than maxDataPoints (50) entries, in any
\* state between two handlers, whatever mix of successful and failed
\* fetches came before.
C1_AtMostMaxDataPoints == Len(priceHistory) <= maxDataPoints

\* The buffer is full, a sample has been evicted, and a fetch has failed.
C1_Witness ==
    /\ Len(appended) = maxDataPoints + 1
    /\ Len(priceHistory) = maxDataPoints
    /\ failures = 1

\* C2: priceHistory and timeLabels have the same length in every state.
C2_SameLength == Len(priceHistory) = Len(timeLabels)

\* Both arrays have been shifted at least once.
C2_Witness ==
    /\ Len(appended) > maxDataPoints
    /\ Len(timeLabels) = maxDataPoints
    /\ timeLabels[1] # 0

\* C3: after n samples have been appended, priceHistory is the last
\* min(n, 50) of them in the order they were appended.
C3_StrictFifo ==
    LET n == Len(appended)
        k == Min(n, maxDataPoints)
    IN  priceHistory = SubSeq(appended, n - k + 1, n)

\* The 51st sample is in: the 1st is gone and samples 2..51 are held.
C3_Witness ==
    /\ Len(appended) = maxDataPoints + 1
    /\ priceHistory[1] = appended[2]
    /\ priceHistory[maxDataPoints] = appended[maxDataPoints + 1]
    /\ \A j \in 1..maxDataPoints : priceHistory[j] # appended[1]

\* C8: a failed fetch leaves the interval running and starts no fetch of its
\* own (no immediate retry); every tick of the interval starts exactly one
\* fetch, so that one fetch has been issued per elapsed second plus the
\* immediate one, however many failed (no backoff); and after a failure the
\* next tick is still to come.
C8_PollerSurvivesFailure ==
    /\ [][/\ failures' > failures => timerActive' /\ issued' = issued
          /\ now' # now => issued' = issued + 1]_vars
    /\ [](timerActive => issued = now + 1)
    /\ [](failures > 0 /\ PendingCalls = {} /\ now < MaxTicks => ENABLED TimerTick)

\* A fetch failed and a fetch issued by a later tick has completed.
C8_Witness ==
    \E i \in FailedCalls : \E j \in DoneCalls : i < j

\* C9: a step in which a fetch fails leaves priceHistory and timeLabels (and
\* the chart drawn from them) unchanged; a step in which a fetch succeeds
\* appends exactly one sample; so the samples appended are as many as the
\* fetches that succeeded.
C9_FailureLeavesHistory ==
    /\ [][/\ failures' > failures =>
                UNCHANGED <<priceHistory, timeLabels, chartShown, appended>>
          /\ Cardinality(DoneCalls') = Cardinality(DoneCalls) + 1 =>
                Len(appended') = Len(appended) + 1]_vars
    /\ [](Len(appended) = Cardinality(DoneCalls))

\* A fetch has failed between two that succeeded, and two samples are held.
C9_Witness ==
    /\ issued = 3
    /\ call = <<"done", "failed", "done">>
    /\ Len(priceHistory) = 2

\* C11: once a fetch issued after a failed one succeeds, nothing the failure
\* path wrote to #currentPrice is still in effect: neither the "Error: ..."
\* text nor the error colour.
C11_ErrorSelfCorrects ==
    [][(\E j \in DoneCalls' \ DoneCalls : \E i \in FailedCalls : i < j) =>
            /\ currentPrice'.text[1] # "Error: "
            /\ currentPrice'.color # "#f44336"]_vars

\* C17: samples are appended in the order in which their fetches were
\* issued, also when fetches overlap, whichever response arrives first (the
\* quote of a later call is the larger one).
C17_AppendedInIssueOrder ==
    \A a, b \in 1..Len(appended) : a < b => appended[a] < appended[b]

(***************************************************************************)
(* Summarizer page: properties                                             *)
(***************************************************************************)

Runs == {runs[i] : i \in 1..Len(runs)}

TranscriptRequests == {Strategy[k] : k \in 1..Len(Strategy)}

\* C4: when strategy 1 (the direct call) yields a transcript of at least 50
\* characters, getYouTubeTranscript returns that transcript and the two
\* proxy strategies are not invoked.
C4_ShortCircuitAt50 ==
    \A run \in Runs :
        Len(run.parsed) >= 1 /\ run.parsed[1] >= 50 =>
            /\ run.reqLog = <<"direct">>
            /\ Len(run.transcript) = run.parsed[1]

\* C5: when each of the 3 strategies failed or parsed fewer than 50
\* characters, the call has failed with the one aggregated error, raised
\* after the third request was issued and completed; while strategies are
\* still to be tried, nothing has reached the caller.
C5_SingleAggregatedError ==
    \A run \in Runs :
        (\A k \in 1..Len(run.parsed) : run.parsed[k] < 50) =>
            IF Len(run.parsed) = Len(Strategy)
            THEN /\ run.raised = <<ErrUnavailable>>
                 /\ run.outcome = ErrUnavailable
                 /\ run.reqLog = Strategy
                 /\ run.inFlight = {}
            ELSE run.videoId # Null => run.raised = <<>> /\ Pending(run)

\* All three strategies were tried, failing in different ways, and the page
\* shows the aggregated error.
C5_Witness ==
    \E run \in Runs :
        /\ Len(run.parsed) = Len(Strategy)
        /\ run.parsed[1] = -1
        /\ run.parsed[2] = 0
        /\ run.parsed[3] = 49
        /\ run.raised = <<ErrUnavailable>>
        /\ errorMessage = [text |-> "Error: " \o ErrUnavailable, display |-> "block"]

\* C6: within one call the transcript requests are issued in the order
\* direct, codetabs, cors-anywhere, each at most once; a request is issued
\* only when every earlier one has completed or failed, so at most one is in
\* flight, and it is the one issued last.
C6_SequentialFixedOrder ==
    \A run \in Runs :
        /\ Len(run.reqLog) <= Len(Strategy)
        /\ run.reqLog = SubSeq(Strategy, 1, Len(run.reqLog))
        /\ Cardinality(run.inFlight \cap TranscriptRequests) <= 1
        /\ Len(run.reqLog) <= Len(run.parsed) + 1
        /\ run.inFlight \cap TranscriptRequests # {} =>
              /\ Len(run.reqLog) = Len(run.parsed) + 1
              /\ run.inFlight = {run.reqLog[Len(run.reqLog)]}

\* The third strategy is in flight after the first two completed.
C6_Witness ==
    \E run \in Runs :
        /\ run.pc = At("text", 3)
        /\ run.reqLog = Strategy
        /\ Len(run.parsed) = 2
        /\ run.inFlight = {"cors-anywhere"}

\* C7: however the oEmbed call ends, no error of it reaches summarizeContent
\* and the transcript fetch is started; when it ends in a failure (the fetch
\* rejects, the response is not ok, the body is not JSON or is null) the
\* video info is the fixed fallback record.
C7_MetadataFailureNotFatal ==
    \A run \in Runs :
        /\ run.oembed \notin {"pending", "not sent"} =>
              /\ Len(run.reqLog) >= 1
              /\ run.reqLog[1] = "direct"
              /\ "oembed" \notin run.inFlight
              /\ \A e \in 1..Len(run.raised) :
                    run.raised[e] \in {ErrUnavailable, ErrNoTranscript, ErrTooShort}
        /\ run.oembed \in {"rejected", "not ok", "not json", "null body"} =>
              run.videoInfo = FallbackInfo
        /\ run.oembed = "pending" => Pending(run) /\ run.reqLog = <<>>

\* The metadata response was not ok, and the results are shown with the
\* fallback record.
C7_Witness ==
    \E run \in Runs :
        /\ run.oembed = "not ok"
        /\ run.outcome = "success"
        /\ resultsSection.display = "block"
        /\ resultsSection.videoInfo = FallbackInfo

\* C10: a call shows the loading indicator when it starts and hides it when
\* it finishes, on every path, and writes it at no other time; the indicator
\* is shown while a call is pending and hidden once the calls are over; and, network
\* calls completing or failing, a shown indicator is eventually hidden.
C10_LoadingShownThenHidden ==
    /\ [](\A run \in Runs :
             /\ Pending(run) => run.loadingTrace = <<"flex">>
             /\ ~Pending(run) => run.loadingTrace = <<"flex", "none">>)
    /\ [](runs # <<>> =>
            loadingSection = (IF \E run \in Runs : Pending(run) THEN "flex"
                                                                ELSE "none"))
    /\ (loadingSection = "flex" ~> loadingSection = "none")

\* Calls have finished on the paths the code can take, indicator hidden.
C10_Witness ==
    /\ loadingSection = "none"
    /\ \E run \in Runs :
          /\ run.outcome = ErrUnavailable
          /\ run.loadingTrace = <<"flex", "none">>
          /\ btn = BtnIdle

IsPrefix(s, t) == Len(s) <= Len(t) /\ s = SubSeq(t, 1, Len(s))

\* C12: at most one summarizeContent call is pending at any time; while one
\* is pending the button is disabled, so that neither a click nor the Enter
\* key can start another; and no step cancels the pending call: it is still
\* there after the step, as far along as it was or further.
C12_AtMostOnePipeline ==
    /\ [](Cardinality({i \in 1..Len(runs) : Pending(runs[i])}) <= 1)
    /\ []((\E run \in Runs : Pending(run)) =>
            /\ btn.disabled
            /\ ~ENABLED (\E value \in Urls : Click(value))
            /\ ~ENABLED (\E value \in Urls : EnterKey(value)))
    /\ [][\A run \in Runs : Pending(run) =>
              \E later \in Runs' :
                  /\ later.url = run.url
                  /\ later.videoId = run.videoId
                  /\ IsPrefix(run.reqLog, later.reqLog)
                  /\ Pending(later) => btn'.disabled]_vars

\* A call is in the middle of its second transcript request: the button is
\* disabled and the call is the only one.
C12_Witness ==
    /\ Len(runs) = 1
    /\ Pending(runs[1])
    /\ runs[1].pc = At("text", 2)
    /\ btn = BtnBusy

\* C14: a call whose url is not classified as YouTube issues no request at
\* all (no metadata request, no transcript request); it fails with the
\* "requires backend" message when the url is classified as a podcast feed
\* and with the invalid-URL message otherwise; and displayResults is not
\* called for it: the call does not succeed, the results stay hidden and
\* an error is shown (its own, until an empty input replaces the text).
C14_DetectThenReject ==
    \A run \in Runs :
        ~classified[run.url].youtube =>
            /\ run.oembed = "not sent"
            /\ run.reqLog = <<>>
            /\ run.inFlight = {}
            /\ run.outcome = (IF classified[run.url].podcast THEN ErrPodcast
                                                              ELSE ErrInvalidUrl)
            /\ run.raised = <<run.outcome>>
            /\ run.pc.stage # "displayed"
            /\ resultsSection.display = "none"
            /\ errorMessage.display = "block"
            /\ errorMessage.text \in {"Error: " \o run.outcome, "Please enter a URL"}

\* A feed url was rejected after a video had been summarized: the results of
\* the video are hidden and the "requires backend" error is shown.
C14_Witness ==
    /\ \E run \in Runs : run.url = "https://example.com/show/feed.xml"
                          /\ run.outcome = ErrPodcast
    /\ resultsSection.transcript # ""
    /\ resultsSection.display = "none"
    /\ errorMessage.display = "block"

\* C18: the results section and the error message are never both visible,
\* whatever was clicked with whatever input and however the requests ended.
C18_ResultsXorError ==
    ~(resultsSection.display = "block" /\ errorMessage.display = "block")

\* C20: a transcript getYouTubeTranscript returns has more than 50
\* characters, so a call that got a transcript succeeds: neither the "No
\* transcript available" error nor the TooShort error is ever raised, and
\* the only error a call that sent requests can end with is the aggregated
\* TranscriptUnavailable error.
C20_OnlyAggregatedError ==
    \A run \in Runs :
        /\ run.transcript # "" =>
              /\ Len(run.transcript) > 50
              /\ run.outcome = "success"
        /\ \A e \in 1..Len(run.raised) :
              run.raised[e] \notin {ErrNoTranscript, ErrTooShort}
        /\ run.reqLog # <<>> => run.outcome \in {"pending", "success", ErrUnavailable}

\* The first strategy parsed 50 characters, which was not returned, and the
\* second returned a transcript of 51, which was summarized.
C20_Witness ==
    \E run \in Runs :
        /\ run.parsed = <<50, 51>>
        /\ Len(run.transcript) = 51
        /\ run.outcome = "success"
        /\ resultsSection.display = "block"

(***************************************************************************)
(* Pure functions: properties                                              *)
(***************************************************************************)

\* The characters of a text, counted piece by piece.
RECURSIVE LengthOf(_)
LengthOf(pieces) ==
    IF pieces = <<>> THEN 0
    ELSE Len(Head(pieces).body) + Len(Head(pieces).stop) + LengthOf(Tail(pieces))

\* C13: generateSummary on the empty string or on any text of fewer than 50
\* characters throws the TooShort error and returns nothing: no summary, no
\* key points, no word count.
C13_TooShortThrows ==
    summaryOut # <<>> /\ LengthOf(textArg) < 50 =>
        summaryOut[1] = [threw |-> ErrTooShort]

\* generateSummary threw on a text of 49 characters.
C13_Witness ==
    /\ textArg = Text49
    /\ LengthOf(textArg) = 49
    /\ summaryOut = <<[threw |-> ErrTooShort]>>

\* The 11 characters that follow the shape the url is written with: the id
\* the accepted shape carries.
CarriedId(u) == SubSeq(u.id \o u.rest, 1, IdLen)

\* C15: for a url that isValidYouTubeURL accepts, extractYouTubeVideoId
\* returns the 11-character id the accepted shape carries, the same id
\* whichever of the three shapes (watch?v=, youtu.be/, embed/) carries it.
C15_SameIdAnyShape ==
    validOut = <<TRUE>> /\ idOut # <<>> => idOut[1] = CarriedId(urlArg)

\* The bodies of the pieces that are long enough to be kept, in text order.
KeptSentences(pieces) ==
    LET kept == SelectSeq(pieces, LAMBDA piece : piece.kept)
    IN  [i \in 1..Len(kept) |-> kept[i].body]

\* ceil(n * 0.2), by cases rather than by arithmetic.
FifthUp(n) == CHOOSE k \in 0..n : 5 * k >= n /\ 5 * (k - 1) < n

\* C16: for a text of at least 50 characters of which n fragments are kept,
\* the summary is the first min(5, ceil(n * 0.2)) of them in document order,
\* joined with ". " and followed by a period; for n = 0 it is the period.
C16_FirstFifthOfSentences ==
    summaryOut # <<>> /\ LengthOf(textArg) >= 50 =>
        LET sentences == KeptSentences(textArg)
            k == Min(5, FifthUp(Len(sentences)))
        IN  /\ summaryOut[1].threw = ""
            /\ summaryOut[1].summary = join(SubSeq(sentences, 1, k), ". ") \o "."
            /\ Len(sentences) = 0 => summaryOut[1].summary = "."

\* A text of 27 sentences separated by discarded fragments was summarized in
\* its first five.
C16_Witness ==
    /\ textArg = Pieces(MaxSentences, "mixed")
    /\ summaryOut # <<>>
    /\ summaryOut[1].threw = ""
    /\ summaryOut[1].summary =
          " " \o Sentence(1) \o ".  " \o Sentence(2) \o ".  " \o Sentence(3)
              \o ".  " \o Sentence(4) \o ".  " \o Sentence(5) \o "."

\* C19: every url isValidYouTubeURL accepts yields an id from
\* extractYouTubeVideoId (11 characters, never null), and summarizeContent
\* called with it does not throw the "Invalid YouTube URL format" error; nor
\* does it throw that error for any other url.
C19_ValidUrlHasId ==
    /\ validOut = <<TRUE>> /\ idOut # <<>> =>
          idOut[1] # Null /\ Len(idOut[1]) = IdLen
    /\ startOut # <<>> => startOut[1] # ErrInvalidFormat
    /\ validOut = <<TRUE>> /\ startOut # <<>> => startOut[1] = ""

\* An embed url followed by a further path was accepted, its id extracted,
\* and summarizeContent got as far as its first request.
C19_Witness ==
    /\ urlArg.shape = "youtube.com/embed/"
    /\ urlArg.rest = "/embed/BBBBBBBBBBB"
    /\ validOut = <<TRUE>>
    /\ idOut = <<urlArg.id>>
    /\ startOut = <<"">>

=============================================================================
